---- MODULE Spec2Model ----
(***************************************************************************)
(* K8s Service Loader Script, versions 0.0.1 and 0.0.2.                    *)
(*                                                                         *)
(* JavaScript strings are modelled as sequences of one-character strings,  *)
(* so that split, join, trim, startsWith, parseInt and the regular         *)
(* expression replacements are computed character by character.            *)
(* JavaScript arrays are 0-based; the sequences here are 1-based, and      *)
(* IndexOf returns 0 where indexOf returns -1.                             *)
(***************************************************************************)
EXTENDS Integers, Sequences, FiniteSets, TLC

\* ------------------------------------------------------------------ bounds
\* Largest number of hyphen-separated pieces of a generated pod name.
MaxSegs == 6
\* Largest number of pod rows in a listing of the interactive flow.
MaxLines == 2
\* Largest number of stdout chunks the port-forward process emits.
MaxChunks == 2

\* ------------------------------------------------------- string constants
HY == "-"
SP == " "
NL == "\n"
Null == <<"#null">>
Undefined == <<"#undefined">>
EmptyStr == <<>>

DEV == <<"d", "e", "v">>
QA == <<"q", "a">>
STG == <<"s", "t", "g">>
Envs == {DEV, QA, STG}

H_NAMESPACE == <<"N", "A", "M", "E", "S", "P", "A", "C", "E">>
H_NAME == <<"N", "A", "M", "E">>
H_READY == <<"R", "E", "A", "D", "Y">>

Digits == <<"0", "1", "2", "3", "4", "5", "6", "7", "8", "9">>
IsDigit(c) == \E i \in 1..10 : Digits[i] = c
DigitVal(c) == (CHOOSE i \in 1..10 : Digits[i] = c) - 1
IsSpace(c) == c = SP \/ c = NL

\* Characters in code-unit order, as Array.prototype.sort compares them.
Alphabet == <<" ", "-", "/", "0", "1", "2", "3", "4", "5", "6", "7", "8", "9", ":",
              "a", "b", "c", "d", "e", "f", "g", "h", "i", "j", "k", "l", "m",
              "n", "o", "p", "q", "r", "s", "t", "u", "v", "w", "x", "y", "z">>
CharCode(c) == CHOOSE i \in 1..Len(Alphabet) : Alphabet[i] = c

\* --------------------------------------------------------- string helpers
Truthy(s) == s # EmptyStr /\ s # Null /\ s # Undefined

StartsWith(s, p) == Len(s) >= Len(p) /\ SubSeq(s, 1, Len(p)) = p

Drop(s, n) == SubSeq(s, n + 1, Len(s))

RECURSIVE TrimStart(_)
TrimStart(s) == IF s # <<>> /\ IsSpace(Head(s)) THEN TrimStart(Tail(s)) ELSE s

RECURSIVE TrimEnd(_)
TrimEnd(s) ==
  IF s # <<>> /\ IsSpace(s[Len(s)]) THEN TrimEnd(SubSeq(s, 1, Len(s) - 1)) ELSE s

Trim(s) == TrimEnd(TrimStart(s))

\* s.split(ch) for a one-character separator: "" gives [""].
RECURSIVE SplitAcc(_, _, _)
SplitAcc(s, ch, cur) ==
  IF s = <<>> THEN <<cur>>
  ELSE IF Head(s) = ch THEN <<cur>> \o SplitAcc(Tail(s), ch, <<>>)
  ELSE SplitAcc(Tail(s), ch, Append(cur, Head(s)))

Split(s, ch) == SplitAcc(s, ch, <<>>)

\* s.split(/\s+/): a run of whitespace is one separator.
RECURSIVE SplitWSAcc(_, _)
SplitWSAcc(s, cur) ==
  IF s = <<>> THEN <<cur>>
  ELSE IF IsSpace(Head(s)) THEN <<cur>> \o SplitWSAcc(TrimStart(s), <<>>)
  ELSE SplitWSAcc(Tail(s), Append(cur, Head(s)))

SplitWS(s) == SplitWSAcc(s, <<>>)

RECURSIVE Join(_, _)
Join(parts, sep) ==
  IF parts = <<>> THEN <<>>
  ELSE IF Len(parts) = 1 THEN parts[1]
  ELSE parts[1] \o <<sep>> \o Join(Tail(parts), sep)

\* headers.indexOf(x), 1-based, 0 when absent.
IndexOf(seq, x) ==
  IF \E i \in 1..Len(seq) : seq[i] = x
  THEN CHOOSE i \in 1..Len(seq) : seq[i] = x /\ \A j \in 1..(i - 1) : seq[j] # x
  ELSE 0

\* columns[i] of an array: undefined outside the array.
At(seq, i) == IF i \in 1..Len(seq) THEN seq[i] ELSE Undefined

\* parseInt(s): leading whitespace skipped, optional sign, then the longest
\* run of digits; NaN when there is no digit.
RECURSIVE DigitsValue(_, _)
DigitsValue(s, acc) ==
  IF s # <<>> /\ IsDigit(Head(s)) THEN DigitsValue(Tail(s), acc * 10 + DigitVal(Head(s)))
  ELSE acc

NaN == [nan |-> TRUE, val |-> 0]
Num(n) == [nan |-> FALSE, val |-> n]

ParseInt(s) ==
  LET t == TrimStart(s)
      neg == t # <<>> /\ Head(t) = "-"
      u == IF t # <<>> /\ (Head(t) = "-" \/ Head(t) = "+") THEN Tail(t) ELSE t
  IN IF u = <<>> \/ ~IsDigit(Head(u)) THEN NaN
     ELSE Num(IF neg THEN 0 - DigitsValue(u, 0) ELSE DigitsValue(u, 0))

\* Lexicographic order by code unit.
RECURSIVE StrLess(_, _)
StrLess(a, b) ==
  IF b = <<>> THEN FALSE
  ELSE IF a = <<>> THEN TRUE
  ELSE IF Head(a) = Head(b) THEN StrLess(Tail(a), Tail(b))
  ELSE CharCode(Head(a)) < CharCode(Head(b))

\* Array.from(keys).sort()
RECURSIVE SortedKeys(_)
SortedKeys(S) ==
  IF S = {} THEN <<>>
  ELSE LET m == CHOOSE x \in S : \A y \in S \ {x} : StrLess(x, y)
       IN <<m>> \o SortedKeys(S \ {m})

\* ----------------------------------------------------------------- parser
\* The environment of a pod name, by literal prefix; EmptyStr when none.
EnvPrefix(nameColumn) ==
  IF StartsWith(nameColumn, DEV \o <<HY>>) THEN DEV
  ELSE IF StartsWith(nameColumn, QA \o <<HY>>) THEN QA
  ELSE IF StartsWith(nameColumn, STG \o <<HY>>) THEN STG
  ELSE EmptyStr

\* nameColumn.replace(/^(dev-|qa-|stg-)/, "")
StripEnvPrefix(nameColumn) ==
  IF StartsWith(nameColumn, DEV \o <<HY>>) THEN Drop(nameColumn, Len(DEV) + 1)
  ELSE IF StartsWith(nameColumn, QA \o <<HY>>) THEN Drop(nameColumn, Len(QA) + 1)
  ELSE IF StartsWith(nameColumn, STG \o <<HY>>) THEN Drop(nameColumn, Len(STG) + 1)
  ELSE nameColumn

\* modifiedName.replace(new RegExp(`^${namespaceColumn}-`, "g"), "") guarded
\* by if (namespaceColumn). Namespaces are DNS labels, so the pattern holds
\* no regular-expression metacharacter and matches literally at the start.
StripNamespace(modifiedName, namespaceColumn) ==
  IF Truthy(namespaceColumn) /\ StartsWith(modifiedName, namespaceColumn \o <<HY>>)
  THEN Drop(modifiedName, Len(namespaceColumn) + 1)
  ELSE modifiedName

HasServiceAndId_OffByOne(parts) == Len(parts) >= 2

\* if (parts.length > 2)
HasServiceAndId(parts) == Len(parts) > 2

\* parts.slice(0, -2).join("-")
ServiceNameOf(parts) ==
  Join(SubSeq(parts, 1, IF Len(parts) > 2 THEN Len(parts) - 2 ELSE 0), HY)

\* parts.slice(-2).join("-")
ServiceIdOf(parts) ==
  Join(SubSeq(parts, IF Len(parts) > 2 THEN Len(parts) - 1 ELSE 1, Len(parts)), HY)

\* servicesMap.get(serviceName)[envPrefix] = {id, namespace}, creating the
\* service's object when it is missing.
MapSet(map, serviceName, envPrefix, entry) ==
  LET old == IF serviceName \in DOMAIN map THEN map[serviceName] ELSE <<>>
      new == [e \in (DOMAIN old) \cup {envPrefix} |->
                IF e = envPrefix THEN entry ELSE old[e]]
  IN [k \in (DOMAIN map) \cup {serviceName} |->
        IF k = serviceName THEN new ELSE map[k]]

\* One iteration of the parsing loop.
ParseLine(map, line, namespace, namespaceIndex, nameIndex) ==
  LET columns == SplitWS(line)
      namespaceColumn == IF namespace # Null THEN namespace
                         ELSE At(columns, namespaceIndex)
      nameColumn == At(columns, nameIndex)
      envPrefix == EnvPrefix(nameColumn)
      modifiedName == StripNamespace(StripEnvPrefix(nameColumn), namespaceColumn)
      parts == Split(modifiedName, HY)
  IN IF envPrefix = EmptyStr THEN map
     ELSE IF HasServiceAndId(parts)
     THEN MapSet(map, ServiceNameOf(parts), envPrefix,
                 [id |-> ServiceIdOf(parts), namespace |-> namespaceColumn])
     ELSE map

RECURSIVE ParseLines(_, _, _, _, _, _)
ParseLines(map, lines, i, namespace, namespaceIndex, nameIndex) ==
  IF i > Len(lines) THEN map
  ELSE ParseLines(ParseLine(map, lines[i], namespace, namespaceIndex, nameIndex),
                  lines, i + 1, namespace, namespaceIndex, nameIndex)

\* getServicesMap(podsData, namespace); version 0.0.1 runs the same loop
\* with no namespace argument.
getServicesMap(podsData, namespace) ==
  LET lines == Split(Trim(podsData), NL)
      headers == SplitWS(lines[1])
      namespaceIndex == IndexOf(headers, H_NAMESPACE)
      nameIndex == IndexOf(headers, H_NAME)
  IN ParseLines(<<>>, lines, 2, namespace, namespaceIndex, nameIndex)

\* `${environment}-${namespace}-${selectedService}-${serviceId}`
PodIdentifier(environment, namespace, selectedService, serviceId) ==
  environment \o <<HY>> \o namespace \o <<HY>> \o selectedService \o <<HY>> \o serviceId

\* ------------------------------------------------- kubectl listing output
\* What `kubectl get pods` prints: a header row and one row per pod; the
\* NAMESPACE column is present only under --all-namespaces.
PodRow(allNamespaces, ns, name) ==
  (IF allNamespaces THEN ns \o <<SP, SP>> ELSE <<>>) \o name \o <<SP, SP, SP>>
    \o <<"1", "/", "1">> \o <<NL>>

HeaderRow(allNamespaces) ==
  (IF allNamespaces THEN H_NAMESPACE \o <<SP, SP>> ELSE <<>>) \o H_NAME \o <<SP, SP, SP>>
    \o H_READY \o <<NL>>

RECURSIVE RowsText(_, _)
RowsText(allNamespaces, rows) ==
  IF rows = <<>> THEN <<>>
  ELSE PodRow(allNamespaces, rows[1].ns, rows[1].name)
         \o RowsText(allNamespaces, Tail(rows))

PodsText(allNamespaces, rows) == HeaderRow(allNamespaces) \o RowsText(allNamespaces, rows)

\* ------------------------------------------------- command-line literals
W_kubectl == <<"k", "u", "b", "e", "c", "t", "l">>
W_port_forward == <<"p", "o", "r", "t", "-", "f", "o", "r", "w", "a", "r", "d">>
W_namespace_flag == <<"-", "-", "n", "a", "m", "e", "s", "p", "a", "c", "e">>
W_logs == <<"l", "o", "g", "s">>
W_follow_flag == <<"-", "f">>
P3000 == <<"3", "0", "0", "0">>
A_y == <<"y">>
A_yes == <<"y", "e", "s">>
A_1 == <<"1">>
A_2 == <<"2">>
A_3 == <<"3">>


\* ------------------------------------------------------------------ state
VARIABLES
  version,       \* "v1" (0.0.1), "v2" (0.0.2); "none" when only the parser runs
  cliNamespace,  \* getArgValue("--namespace"), Null when absent (always Null in v1)
  pc,            \* where the main flow is waiting
  rl,            \* the readline interface: "none", "open", "closed"
  pending,       \* questions awaiting an answer on the input stream
  main,          \* the locals of the main flow
  detectExecs,   \* port-detection commands started
  errors,        \* kinds of error reported so far
  pf,            \* the port-forward child process and portForwardFirstTime
  rlAtPfClose,   \* state of rl when the port-forward close was reported
  logs,          \* invocations of handleLogsProcess and the logs child process
  parser         \* the parser applied to one generated pod row

vars == <<version, cliNamespace, pc, rl, pending, main, detectExecs, errors,
          pf, rlAtPfClose, logs, parser>>

MainInit ==
  [ servicesMap |-> <<>>, servicesList |-> <<>>,
    serviceAnswer |-> Undefined, envAnswer |-> Undefined,
    selectedService |-> Undefined, environment |-> Undefined,
    namespace |-> Undefined, serviceId |-> Undefined,
    localPort |-> Undefined, servicePortDetected |-> Undefined,
    servicePort |-> Undefined, logsCommand |-> Undefined ]

PfInit ==
  [ spawned |-> 0, args |-> <<>>, state |-> "none", out |-> 0, code |-> 0,
    portForwardFirstTime |-> TRUE ]

LogsInit ==
  [ runs |-> <<>>, spawned |-> 0, args |-> <<>>, state |-> "none",
    logsFirstTime |-> TRUE ]

ParserIdle ==
  [ phase |-> "off", namespace |-> Null, row |-> [ns |-> EmptyStr, name |-> EmptyStr],
    map |-> <<>>, podId |-> Undefined ]

\* ----------------------------------------------------------------- inputs
NS_n == <<"n">>
NS_ns == <<"n", "-", "s">>

\* Pod rows the cluster may list during the interactive flow.
FlowRows ==
  { [ns |-> NS_n, name |-> <<"d","e","v","-","n","-","s","-","a","-","b">>],
    [ns |-> NS_n, name |-> <<"q","a","-","n","-","s","-","a","-","c">>],
    [ns |-> NS_n, name |-> <<"d","e","v","-","n","-","t","-","a","-","b">>],
    [ns |-> NS_n, name |-> <<"x","-","n","-","s","-","a","-","b">>] }

Listings == UNION { [1..k -> FlowRows] : k \in 0..MaxLines }

\* Results of exec: {error, stdout, stderr}.
ExecFailures ==
  { [error |-> TRUE, stdout |-> EmptyStr, stderr |-> EmptyStr],
    [error |-> FALSE, stdout |-> EmptyStr, stderr |-> <<"w">>] }

ExecOk(stdout) == [error |-> FALSE, stdout |-> stdout, stderr |-> EmptyStr]

PodsResults(allNamespaces) ==
  ExecFailures \cup { ExecOk(PodsText(allNamespaces, rows)) : rows \in Listings }

DetectResults == ExecFailures \cup { ExecOk(<<"8", "0">>), ExecOk(<<"8", "0", " ", "9", "0">>) }

ServiceAnswers == { <<>>, <<"x">>, <<"0">>, <<"1">>, <<"2">>, <<"9">>, <<"1", "x">> }
EnvAnswers == { <<>>, <<"x">>, <<"0">>, <<"1">>, <<"2">>, <<"3">>, <<"4">> }
PortAnswers == { <<>>, <<" ", "8", "1", " ">> }
LogsAnswers == { <<>>, <<"Y">>, <<"n">> }
ExitCodes == {0, 1}


\* ------------------------------------------------------ selection helpers
Upper == <<"A","B","C","D","E","F","G","H","I","J","K","L","M",
           "N","O","P","Q","R","S","T","U","V","W","X","Y","Z">>
Lower == <<"a","b","c","d","e","f","g","h","i","j","k","l","m",
           "n","o","p","q","r","s","t","u","v","w","x","y","z">>

\* String.prototype.toLowerCase
ToLowerCase(s) ==
  [i \in 1..Len(s) |->
     IF \E k \in 1..26 : Upper[k] = s[i]
     THEN Lower[CHOOSE k \in 1..26 : Upper[k] = s[i]]
     ELSE s[i]]

\* x || d for strings: the empty string is falsy.
OrDefault(x, d) == IF x = EmptyStr THEN d ELSE x

\* parseInt(x) - 1: NaN stays NaN.
MinusOne(p) == IF p.nan THEN NaN ELSE Num(p.val - 1)

\* parseInt(x) || 1: NaN and 0 are falsy.
OrOne(p) == IF p.nan \/ p.val = 0 THEN 1 ELSE p.val

\* execPromise: rejects on an error or on any stderr output.
ExecRejects(r) == r.error \/ r.stderr # EmptyStr

IsInvalidSelection_OffByOne(selectedIndex, length) ==
  selectedIndex.nan \/ selectedIndex.val < 0 \/ selectedIndex.val > length

\* isNaN(selectedIndex) || selectedIndex < 0 || selectedIndex >= servicesList.length
IsInvalidSelection(selectedIndex, length) ==
  selectedIndex.nan \/ selectedIndex.val < 0 \/ selectedIndex.val >= length

\* selectedIndex >= 0 && selectedIndex < serviceList.length (false for NaN)
IsValidSelectionV1(selectedIndex, length) ==
  ~selectedIndex.nan /\ selectedIndex.val >= 0 /\ selectedIndex.val < length

\* servicesList[selectedIndex]
ServiceAt(list, selectedIndex) ==
  IF selectedIndex.nan THEN Undefined ELSE At(list, selectedIndex.val + 1)

\* The if/else chain on envChoice of 0.0.2; Undefined when none matches.
EnvironmentOfChoice(envChoice) ==
  IF envChoice = 1 THEN DEV
  ELSE IF envChoice = 2 THEN QA
  ELSE IF envChoice = 3 THEN STG
  ELSE Undefined

\* The if/else chain on the raw answer of 0.0.1.
EnvironmentOfAnswerV1(envChoice) ==
  IF envChoice = A_1 THEN DEV
  ELSE IF envChoice = A_2 THEN QA
  ELSE IF envChoice = A_3 THEN STG
  ELSE Undefined

NoDetails == [id |-> Undefined, namespace |-> Undefined]

ServiceDetails_AlwaysDev(map, service, env) ==
  IF service \in DOMAIN map /\ DEV \in DOMAIN map[service]
  THEN map[service][DEV] ELSE NoDetails

\* servicesMap.get(selectedService)[environment]
ServiceDetails(map, service, env) ==
  IF service \in DOMAIN map /\ env \in DOMAIN map[service]
  THEN map[service][env] ELSE NoDetails

\* `kubectl port-forward --namespace ${namespace} ${pod} ${localPort}:${servicePort}`
PortForwardCommand(ns, env, service, id, lp, sp) ==
  W_kubectl \o <<SP>> \o W_port_forward \o <<SP>> \o W_namespace_flag \o <<SP>> \o ns
    \o <<SP>> \o PodIdentifier(env, ns, service, id) \o <<SP>> \o lp \o <<":">> \o sp

\* `kubectl logs --namespace ${namespace} ${pod} -f`
LogsCommand(ns, env, service, id) ==
  W_kubectl \o <<SP>> \o W_logs \o <<SP>> \o W_namespace_flag \o <<SP>> \o ns
    \o <<SP>> \o PodIdentifier(env, ns, service, id) \o <<SP>> \o W_follow_flag

\* command.split(" ").slice(1)
SpawnArgs(command) == Tail(Split(command, SP))

\* The argument array version 0.0.1 passes to spawn.
SpawnArgsV1(ns, env, service, id, lp) ==
  <<W_port_forward, W_namespace_flag, ns, PodIdentifier(env, ns, service, id),
    lp \o <<":">> \o P3000>>


\* ---------------------------------------------------------- shared pieces
Asked(q) == \E i \in 1..Len(pending) : pending[i] = q

\* The question q has been answered: it is no longer pending.
Answered(q) ==
  LET i == CHOOSE k \in 1..Len(pending) :
             pending[k] = q /\ \A j \in 1..(k - 1) : pending[j] # q
  IN SubSeq(pending, 1, i - 1) \o SubSeq(pending, i + 1, Len(pending))

FlowInit ==
  /\ version \in {"v1", "v2"}
  /\ cliNamespace \in (IF version = "v2" THEN {Null, NS_n} ELSE {Null})
  /\ pc = "pods"
  /\ rl = (IF version = "v2" THEN "open" ELSE "none")
  /\ pending = <<>>
  /\ main = MainInit
  /\ detectExecs = 0
  /\ errors = {}
  /\ pf = PfInit
  /\ rlAtPfClose = "n/a"
  /\ logs = LogsInit
  /\ parser = ParserIdle

\* --------------------------------------------------------- version 0.0.2
\* main() from the resolution of execPromise(getPodsCommand) to the first
\* prompt, including the catch block.
V2PodsListed ==
  /\ version = "v2" /\ pc = "pods"
  /\ \E r \in PodsResults(cliNamespace = Null) :
       IF ExecRejects(r)
       THEN /\ errors' = errors \cup {"podsExec"}
            /\ rl' = "closed"
            /\ pc' = "ended"
            /\ UNCHANGED <<pending, main>>
       ELSE LET map == getServicesMap(r.stdout, cliNamespace)
                list == SortedKeys(DOMAIN map)
            IN /\ main' = [main EXCEPT !.servicesMap = map, !.servicesList = list]
               /\ IF Len(list) = 0
                  THEN rl' = "closed" /\ pc' = "ended" /\ pending' = pending
                  ELSE rl' = rl /\ pc' = "service" /\ pending' = Append(pending, "service")
               /\ errors' = errors
  /\ UNCHANGED <<version, cliNamespace, detectExecs, pf, rlAtPfClose, logs, parser>>

\* main() from the service answer to the environment prompt.
V2AnswerService ==
  /\ version = "v2" /\ pc = "service" /\ Asked("service")
  /\ \E raw \in ServiceAnswers :
       LET serviceAnswer == Trim(raw)
           selectedIndex == MinusOne(ParseInt(serviceAnswer))
       IN IF IsInvalidSelection(selectedIndex, Len(main.servicesList))
          THEN /\ main' = [main EXCEPT !.serviceAnswer = serviceAnswer]
               /\ errors' = errors \cup {"invalidService"}
               /\ rl' = "closed"
               /\ pc' = "ended"
               /\ pending' = Answered("service")
          ELSE /\ main' = [main EXCEPT !.serviceAnswer = serviceAnswer,
                             !.selectedService = ServiceAt(main.servicesList, selectedIndex)]
               /\ pending' = Append(Answered("service"), "env")
               /\ pc' = "env"
               /\ UNCHANGED <<errors, rl>>
  /\ UNCHANGED <<version, cliNamespace, detectExecs, pf, rlAtPfClose, logs, parser>>

\* main() from the environment answer to the local-port prompt.
V2AnswerEnv ==
  /\ version = "v2" /\ pc = "env" /\ Asked("env")
  /\ \E raw \in EnvAnswers :
       LET envAnswer == Trim(raw)
           envChoice == OrOne(ParseInt(envAnswer))
           env == EnvironmentOfChoice(envChoice)
           serviceDetails == ServiceDetails(main.servicesMap, main.selectedService, env)
       IN IF env = Undefined
          THEN /\ main' = [main EXCEPT !.envAnswer = envAnswer]
               /\ errors' = errors \cup {"invalidEnv"}
               /\ rl' = "closed" /\ pc' = "ended"
               /\ pending' = Answered("env")
          ELSE IF main.selectedService \notin DOMAIN main.servicesMap
          THEN \* servicesMap.get(undefined)[environment] throws: the catch block
               /\ main' = [main EXCEPT !.envAnswer = envAnswer, !.environment = env]
               /\ errors' = errors \cup {"exception"}
               /\ rl' = "closed" /\ pc' = "ended"
               /\ pending' = Answered("env")
          ELSE IF serviceDetails = NoDetails
          THEN /\ main' = [main EXCEPT !.envAnswer = envAnswer, !.environment = env]
               /\ errors' = errors \cup {"missingEnv"}
               /\ rl' = "closed" /\ pc' = "ended"
               /\ pending' = Answered("env")
          ELSE /\ main' = [main EXCEPT !.envAnswer = envAnswer, !.environment = env,
                             !.serviceId = serviceDetails.id,
                             !.namespace = IF cliNamespace # Null THEN cliNamespace
                                           ELSE serviceDetails.namespace]
               /\ pending' = Append(Answered("env"), "localPort")
               /\ pc' = "localPort"
               /\ UNCHANGED <<errors, rl>>
  /\ UNCHANGED <<version, cliNamespace, detectExecs, pf, rlAtPfClose, logs, parser>>

\* main() from the local-port answer to the start of the port detection.
V2AnswerLocalPort ==
  /\ version = "v2" /\ pc = "localPort" /\ Asked("localPort")
  /\ \E raw \in PortAnswers :
       main' = [main EXCEPT !.localPort = OrDefault(Trim(raw), P3000)]
  /\ pending' = Answered("localPort")
  /\ detectExecs' = detectExecs + 1
  /\ pc' = "detect"
  /\ UNCHANGED <<version, cliNamespace, rl, errors, pf, rlAtPfClose, logs, parser>>

\* main() from the resolution of execPromise(getServicePortCommand) to the
\* destination-port prompt, including the catch block.
V2PortDetected ==
  /\ version = "v2" /\ pc = "detect"
  /\ \E r \in DetectResults :
       IF ExecRejects(r)
       THEN /\ errors' = errors \cup {"detectExec"}
            /\ rl' = "closed" /\ pc' = "ended"
            /\ UNCHANGED <<main, pending>>
       ELSE /\ main' = [main EXCEPT !.servicePortDetected = r.stdout]
            /\ pending' = Append(pending, "servicePort")
            /\ pc' = "servicePort"
            /\ UNCHANGED <<errors, rl>>
  /\ UNCHANGED <<version, cliNamespace, detectExecs, pf, rlAtPfClose, logs, parser>>

\* main() from the destination-port answer to its end: the port-forward
\* process is spawned and its handlers registered.
V2AnswerServicePort ==
  /\ version = "v2" /\ pc = "servicePort" /\ Asked("servicePort")
  /\ \E raw \in PortAnswers :
       LET servicePort == OrDefault(Trim(raw), main.servicePortDetected)
           portForwardCommand ==
             PortForwardCommand(main.namespace, main.environment, main.selectedService,
                                main.serviceId, main.localPort, servicePort)
       IN /\ main' = [main EXCEPT !.servicePort = servicePort,
                        !.logsCommand = LogsCommand(main.namespace, main.environment,
                                                    main.selectedService, main.serviceId)]
          /\ pf' = [pf EXCEPT !.spawned = pf.spawned + 1,
                      !.args = SpawnArgs(portForwardCommand),
                      !.state = "running", !.portForwardFirstTime = TRUE]
  /\ pending' = Answered("servicePort")
  /\ pc' = "forwarding"
  /\ UNCHANGED <<version, cliNamespace, rl, detectExecs, errors, rlAtPfClose, logs, parser>>


\* The first await of handleLogsProcess: the invocation is sleeping.
HandleLogsStarted(l) == [l EXCEPT !.runs = Append(l.runs, "sleeping")]

V2PfStdout_AlwaysEmit ==
  /\ version = "v2" /\ pf.state = "running" /\ pf.out < MaxChunks
  /\ pf' = [pf EXCEPT !.out = pf.out + 1, !.portForwardFirstTime = FALSE]
  /\ logs' = HandleLogsStarted(logs)
  /\ UNCHANGED <<version, cliNamespace, pc, rl, pending, main, detectExecs, errors,
                 rlAtPfClose, parser>>

V2PfStdout_FlagNeverCleared ==
  /\ version = "v2" /\ pf.state = "running" /\ pf.out < MaxChunks
  /\ pf' = [pf EXCEPT !.out = pf.out + 1]
  /\ logs' = IF pf.portForwardFirstTime THEN HandleLogsStarted(logs) ELSE logs
  /\ UNCHANGED <<version, cliNamespace, pc, rl, pending, main, detectExecs, errors,
                 rlAtPfClose, parser>>

\* portForwardProcess.stdout.on("data"): the emit runs the handler up to its
\* first await, synchronously.
V2PfStdout ==
  /\ version = "v2" /\ pf.state = "running" /\ pf.out < MaxChunks
  /\ pf' = [pf EXCEPT !.out = pf.out + 1, !.portForwardFirstTime = FALSE]
  /\ logs' = IF pf.portForwardFirstTime THEN HandleLogsStarted(logs) ELSE logs
  /\ UNCHANGED <<version, cliNamespace, pc, rl, pending, main, detectExecs, errors,
                 rlAtPfClose, parser>>

\* portForwardProcess.stderr.on("data")
V2PfStderr ==
  /\ version = "v2" /\ pf.state = "running"
  /\ errors' = errors \cup {"pfStderr"}
  /\ UNCHANGED <<version, cliNamespace, pc, rl, pending, main, detectExecs, pf,
                 rlAtPfClose, logs, parser>>

\* portForwardProcess.on("close")
V2PfClose ==
  /\ version = "v2" /\ pf.state = "running"
  /\ \E code \in ExitCodes :
       /\ pf' = [pf EXCEPT !.state = "closed", !.code = code]
       /\ errors' = IF code # 0 THEN errors \cup {"pfExit"} ELSE errors
  /\ rlAtPfClose' = rl
  /\ UNCHANGED <<version, cliNamespace, pc, rl, pending, main, detectExecs, logs, parser>>

\* handleLogsProcess from the end of sleep(500) to the logs question.
V2LogsSleepDone ==
  /\ version = "v2"
  /\ \E i \in 1..Len(logs.runs) :
       /\ logs.runs[i] = "sleeping"
       /\ logs' = [logs EXCEPT !.runs[i] = "asking"]
  /\ pending' = Append(pending, "logs")
  /\ UNCHANGED <<version, cliNamespace, pc, rl, main, detectExecs, errors, pf,
                 rlAtPfClose, parser>>

\* handleLogsProcess from the logs answer to its end.
V2AnswerLogs ==
  /\ version = "v2" /\ Asked("logs")
  /\ \E i \in 1..Len(logs.runs), raw \in LogsAnswers :
       /\ logs.runs[i] = "asking"
       /\ LET logsChoice == OrDefault(ToLowerCase(Trim(raw)), A_y)
          IN IF logsChoice = A_y \/ logsChoice = A_yes
             THEN logs' = [logs EXCEPT !.runs[i] = "done",
                             !.spawned = logs.spawned + 1,
                             !.args = SpawnArgs(main.logsCommand),
                             !.state = "running", !.logsFirstTime = TRUE]
             ELSE logs' = [logs EXCEPT !.runs[i] = "done"]
  /\ pending' = Answered("logs")
  /\ rl' = "closed"
  /\ UNCHANGED <<version, cliNamespace, pc, main, detectExecs, errors, pf,
                 rlAtPfClose, parser>>

\* logsProcess.stdout.on("data")
V2LogsStdout ==
  /\ version = "v2" /\ logs.state = "running"
  /\ logs' = [logs EXCEPT !.logsFirstTime = FALSE]
  /\ UNCHANGED <<version, cliNamespace, pc, rl, pending, main, detectExecs, errors,
                 pf, rlAtPfClose, parser>>

\* logsProcess.stderr.on("data")
V2LogsStderr ==
  /\ version = "v2" /\ logs.state = "running"
  /\ errors' = errors \cup {"logsStderr"}
  /\ UNCHANGED <<version, cliNamespace, pc, rl, pending, main, detectExecs, pf,
                 rlAtPfClose, logs, parser>>

\* logsProcess.on("close")
V2LogsClose ==
  /\ version = "v2" /\ logs.state = "running"
  /\ \E code \in ExitCodes :
       /\ logs' = [logs EXCEPT !.state = "closed"]
       /\ errors' = IF code # 0 THEN errors \cup {"logsExit"} ELSE errors
  /\ UNCHANGED <<version, cliNamespace, pc, rl, pending, main, detectExecs, pf,
                 rlAtPfClose, parser>>

\* --------------------------------------------------------- version 0.0.1
\* The exec callback up to the service question.
V1PodsListed ==
  /\ version = "v1" /\ pc = "pods"
  /\ \E r \in PodsResults(TRUE) :
       IF r.error \/ r.stderr # EmptyStr
       THEN /\ errors' = errors \cup {"podsExec"}
            /\ pc' = "ended"
            /\ UNCHANGED <<rl, pending, main>>
       ELSE LET map == getServicesMap(r.stdout, Null)
                serviceList == SortedKeys(DOMAIN map)
            IN /\ main' = [main EXCEPT !.servicesMap = map, !.servicesList = serviceList]
               /\ IF Len(serviceList) = 0
                  THEN pc' = "ended" /\ UNCHANGED <<rl, pending>>
                  ELSE rl' = "open" /\ pc' = "service"
                       /\ pending' = Append(pending, "service")
               /\ errors' = errors
  /\ UNCHANGED <<version, cliNamespace, detectExecs, pf, rlAtPfClose, logs, parser>>

\* The service-selection callback.
V1AnswerService ==
  /\ version = "v1" /\ pc = "service" /\ Asked("service")
  /\ \E answer \in ServiceAnswers :
       LET selectedIndex == MinusOne(ParseInt(answer))
       IN IF IsValidSelectionV1(selectedIndex, Len(main.servicesList))
          THEN /\ main' = [main EXCEPT !.serviceAnswer = answer,
                             !.selectedService = ServiceAt(main.servicesList, selectedIndex)]
               /\ pending' = Append(Answered("service"), "env")
               /\ pc' = "env"
               /\ UNCHANGED <<errors, rl>>
          ELSE /\ main' = [main EXCEPT !.serviceAnswer = answer]
               /\ errors' = errors \cup {"invalidService"}
               /\ rl' = "closed" /\ pc' = "ended"
               /\ pending' = Answered("service")
  /\ UNCHANGED <<version, cliNamespace, detectExecs, pf, rlAtPfClose, logs, parser>>

\* The environment callback.
V1AnswerEnv ==
  /\ version = "v1" /\ pc = "env" /\ Asked("env")
  /\ \E envChoice \in EnvAnswers :
       LET env == EnvironmentOfAnswerV1(envChoice)
           serviceDetails == ServiceDetails(main.servicesMap, main.selectedService, env)
       IN IF env = Undefined
          THEN /\ main' = [main EXCEPT !.envAnswer = envChoice]
               /\ errors' = errors \cup {"invalidEnv"}
               /\ rl' = "closed" /\ pc' = "ended"
               /\ pending' = Answered("env")
          ELSE IF serviceDetails = NoDetails
          THEN /\ main' = [main EXCEPT !.envAnswer = envChoice, !.environment = env]
               /\ errors' = errors \cup {"missingEnv"}
               /\ rl' = "closed" /\ pc' = "ended"
               /\ pending' = Answered("env")
          ELSE /\ main' = [main EXCEPT !.envAnswer = envChoice, !.environment = env,
                             !.serviceId = serviceDetails.id,
                             !.namespace = serviceDetails.namespace]
               /\ pending' = Append(Answered("env"), "localPort")
               /\ pc' = "localPort"
               /\ UNCHANGED <<errors, rl>>
  /\ UNCHANGED <<version, cliNamespace, detectExecs, pf, rlAtPfClose, logs, parser>>

V1AnswerLocalPort_NoClose ==
  /\ version = "v1" /\ pc = "localPort" /\ Asked("localPort")
  /\ \E portInput \in PortAnswers :
       LET localPort == OrDefault(Trim(portInput), P3000)
       IN /\ main' = [main EXCEPT !.localPort = localPort, !.servicePort = P3000]
          /\ pf' = [pf EXCEPT !.spawned = pf.spawned + 1,
                      !.args = SpawnArgsV1(main.namespace, main.environment,
                                           main.selectedService, main.serviceId, localPort),
                      !.state = "running"]
  /\ pending' = Answered("localPort")
  /\ pc' = "forwarding"
  /\ UNCHANGED <<version, cliNamespace, rl, detectExecs, errors, rlAtPfClose, logs, parser>>

\* The local-port callback: spawns the port-forward process, registers its
\* handlers and closes the readline interface.
V1AnswerLocalPort ==
  /\ version = "v1" /\ pc = "localPort" /\ Asked("localPort")
  /\ \E portInput \in PortAnswers :
       LET localPort == OrDefault(Trim(portInput), P3000)
       IN /\ main' = [main EXCEPT !.localPort = localPort, !.servicePort = P3000]
          /\ pf' = [pf EXCEPT !.spawned = pf.spawned + 1,
                      !.args = SpawnArgsV1(main.namespace, main.environment,
                                           main.selectedService, main.serviceId, localPort),
                      !.state = "running"]
  /\ pending' = Answered("localPort")
  /\ rl' = "closed"
  /\ pc' = "forwarding"
  /\ UNCHANGED <<version, cliNamespace, detectExecs, errors, rlAtPfClose, logs, parser>>

\* child.stdout.on("data")
V1PfStdout ==
  /\ version = "v1" /\ pf.state = "running" /\ pf.out < MaxChunks
  /\ pf' = [pf EXCEPT !.out = pf.out + 1]
  /\ UNCHANGED <<version, cliNamespace, pc, rl, pending, main, detectExecs, errors,
                 rlAtPfClose, logs, parser>>

\* child.stderr.on("data")
V1PfStderr ==
  /\ version = "v1" /\ pf.state = "running"
  /\ errors' = errors \cup {"pfStderr"}
  /\ UNCHANGED <<version, cliNamespace, pc, rl, pending, main, detectExecs, pf,
                 rlAtPfClose, logs, parser>>

\* child.on("close")
V1PfClose ==
  /\ version = "v1" /\ pf.state = "running"
  /\ \E code \in ExitCodes :
       /\ pf' = [pf EXCEPT !.state = "closed", !.code = code]
       /\ errors' = IF code # 0 THEN errors \cup {"pfExit"} ELSE errors
  /\ rlAtPfClose' = rl
  /\ UNCHANGED <<version, cliNamespace, pc, rl, pending, main, detectExecs, logs, parser>>

Next ==
  \/ V2PodsListed \/ V2AnswerService \/ V2AnswerEnv \/ V2AnswerLocalPort
  \/ V2PortDetected \/ V2AnswerServicePort
  \/ V2PfStdout \/ V2PfStderr \/ V2PfClose
  \/ V2LogsSleepDone \/ V2AnswerLogs
  \/ V2LogsStdout \/ V2LogsStderr \/ V2LogsClose
  \/ V1PodsListed \/ V1AnswerService \/ V1AnswerEnv \/ V1AnswerLocalPort
  \/ V1PfStdout \/ V1PfStderr \/ V1PfClose

Spec == FlowInit /\ [][Next]_vars


\* ------------------------------------------------------ the parser alone
Pieces == {DEV, QA, STG, <<"n">>, <<"s">>}

\* Pod names: up to MaxSegs pieces joined by hyphens.
PodNames == { Join(q, HY) : q \in UNION { [1..k -> Pieces] : k \in 1..MaxSegs } }

\* The namespace the rows are parsed against: the command-line one when
\* given, else the NAMESPACE column.
ParserInputs ==
  { [phase |-> "input", namespace |-> cli, row |-> [ns |-> col, name |-> nm],
     map |-> <<>>, podId |-> Undefined] :
      cli \in {Null, NS_ns}, col \in {NS_n, NS_ns}, nm \in PodNames }

ParserInit ==
  /\ version = "none"
  /\ cliNamespace = Null
  /\ pc = "off"
  /\ rl = "none"
  /\ pending = <<>>
  /\ main = MainInit
  /\ detectExecs = 0
  /\ errors = {}
  /\ pf = PfInit
  /\ rlAtPfClose = "n/a"
  /\ logs = LogsInit
  /\ parser \in { x \in ParserInputs : x.namespace \in {Null, x.row.ns} }

flowVars == <<version, cliNamespace, pc, rl, pending, main, detectExecs, errors,
              pf, rlAtPfClose, logs>>

\* getServicesMap applied to the listing of the one row.
ParserParse ==
  /\ parser.phase = "input"
  /\ parser' = [parser EXCEPT !.phase = "parsed",
                  !.map = getServicesMap(PodsText(parser.namespace = Null, <<parser.row>>),
                                         parser.namespace)]
  /\ UNCHANGED flowVars

\* The pod identifier main builds for the entry the row contributed.
ParserBuild ==
  /\ parser.phase = "parsed"
  /\ \E service \in DOMAIN parser.map :
       \E env \in DOMAIN parser.map[service] :
         LET serviceDetails == ServiceDetails(parser.map, service, env)
             ns == IF parser.namespace # Null THEN parser.namespace
                   ELSE serviceDetails.namespace
         IN parser' = [parser EXCEPT !.phase = "built",
                         !.podId = PodIdentifier(env, ns, service, serviceDetails.id)]
  /\ UNCHANGED flowVars

ParserNext == ParserParse \/ ParserBuild

ParserSpec == ParserInit /\ [][ParserNext]_vars


\* ----------------------------------------------------------------- claims
NoChildStarted == detectExecs = 0 /\ pf.spawned = 0 /\ logs.spawned = 0

EndedWith(kind) ==
  pc = "ended" /\ rl = "closed" /\ pending = <<>> /\ kind \in errors

Hyphens(s) == Cardinality({ i \in 1..Len(s) : s[i] = HY })

\* C1: in both versions, a service answer that is non-numeric or whose parsed
\* integer lies outside [1, number of listed services] ends the run with an
\* error and the input stream closed, and no child process is ever started.
C1_InvalidServiceSelectionEnds ==
  ( /\ main.serviceAnswer # Undefined
    /\ LET p == ParseInt(main.serviceAnswer)
       IN p.nan \/ p.val < 1 \/ p.val > Len(main.servicesList) )
  => (EndedWith("invalidService") /\ NoChildStarted)

C1_Witness ==
  /\ main.serviceAnswer = <<"x">>
  /\ Len(main.servicesList) = 2
  /\ EndedWith("invalidService")

\* C2: in both versions, choosing an environment that has no entry for the
\* chosen service ends the run with an error and the input stream closed,
\* with no further prompt and no child process.
C2_MissingEnvironmentEnds ==
  ( /\ main.environment \in Envs
    /\ main.selectedService \in DOMAIN main.servicesMap
    /\ main.environment \notin DOMAIN main.servicesMap[main.selectedService] )
  => (EndedWith("missingEnv") /\ NoChildStarted)

C2_Witness ==
  /\ main.environment = QA
  /\ DOMAIN main.servicesMap[main.selectedService] = {DEV}
  /\ EndedWith("missingEnv")

\* C3: the argument list handed to the spawned port-forward process is exactly
\* [port-forward, --namespace, NS, <env>-<NS>-<service>-<id>, L:D].
C3_PortForwardArgsExact ==
  pf.spawned > 0 =>
    pf.args = << W_port_forward, W_namespace_flag, main.namespace,
                 main.environment \o <<HY>> \o main.namespace \o <<HY>>
                   \o main.selectedService \o <<HY>> \o main.serviceId,
                 main.localPort \o <<":">> \o main.servicePort >>

\* C4: at the environment prompt of 0.0.2 the default dev applies only to the
\* empty answer, and every other answer that is not 1, 2 or 3 ends the run
\* with no environment selected; in 0.0.1 every answer other than exactly 1,
\* 2 or 3 ends the run.
C4_EnvDefaultOnlyWhenEmpty ==
  main.envAnswer # Undefined =>
    /\ (version = "v2" /\ main.envAnswer = EmptyStr) => main.environment = DEV
    /\ (version = "v2" /\ main.envAnswer \notin {EmptyStr, A_1, A_2, A_3})
         => (EndedWith("invalidEnv") /\ main.environment = Undefined)
    /\ (version = "v1" /\ main.envAnswer \notin {A_1, A_2, A_3})
         => (EndedWith("invalidEnv") /\ main.environment = Undefined)

\* C5: in 0.0.2 every error (a failed kubectl invocation, an invalid
\* selection, a missing entry) ends with the readline interface closed: once
\* nothing more can happen in a run that reported an error, rl is closed.
C5_EveryErrorClosesInput ==
  (version = "v2" /\ errors # {} /\ ~ENABLED Next) => rl = "closed"

\* C6: in 0.0.2 the logs handler is triggered exactly once if at least one
\* stdout chunk of the port-forward process arrived and never otherwise; at
\* most one port-forward and at most one logs process are ever spawned.
C6_LogsHandlerOneShot ==
  version = "v2" =>
    /\ Len(logs.runs) = (IF pf.out >= 1 THEN 1 ELSE 0)
    /\ Cardinality({ i \in 1..Len(pending) : pending[i] = "logs" }) <= 1
    /\ pf.spawned <= 1
    /\ logs.spawned <= 1

C6_Witness ==
  /\ version = "v2"
  /\ pf.out = MaxChunks
  /\ Len(logs.runs) = 1
  /\ logs.spawned = 1

\* C7: in every reachable state of either version at most one prompt awaits
\* an answer; the logs question is never pending with a main-flow prompt.
C7_AtMostOnePrompt ==
  /\ Len(pending) <= 1
  /\ Asked("logs") => pc = "forwarding"

C7_Witness ==
  /\ pending = <<"logs">>
  /\ pf.state = "closed"
  /\ pf.out = MaxChunks

\* C8: a pod row adds an entry if and only if its name starts with dev-, qa-
\* or stg- and the rest, after that prefix and a leading <namespace>- are
\* stripped, has more than two hyphen-separated segments; the entry is stored
\* under all segments but the last two, for the environment of the prefix,
\* with the last two segments joined by a hyphen as id.
C8_ParserEntryIffPrefixAndSegments ==
  parser.phase = "parsed" =>
    LET name == parser.row.name
        nsc == IF parser.namespace # Null THEN parser.namespace ELSE parser.row.ns
        hasEnv == \E e \in Envs : StartsWith(name, e \o <<HY>>)
        env == CHOOSE e \in Envs : StartsWith(name, e \o <<HY>>)
        afterEnv == Drop(name, Len(env) + 1)
        rest == IF StartsWith(afterEnv, nsc \o <<HY>>)
                THEN Drop(afterEnv, Len(nsc) + 1) ELSE afterEnv
    IN IF hasEnv /\ Hyphens(rest) + 1 > 2
       THEN \E service \in DOMAIN parser.map :
              /\ DOMAIN parser.map = {service}
              /\ DOMAIN parser.map[service] = {env}
              /\ parser.map[service][env].namespace = nsc
              /\ Hyphens(parser.map[service][env].id) = 1
              /\ service \o <<HY>> \o parser.map[service][env].id = rest
       ELSE DOMAIN parser.map = {}

C8_Witness ==
  /\ parser.phase = "parsed"
  /\ parser.row.ns = NS_ns
  /\ parser.row.name = DEV \o <<HY>> \o NS_ns \o <<HY>> \o QA \o <<HY, "n", HY, "s">>
  /\ DOMAIN parser.map = {QA}
  /\ parser.map[QA][DEV] = [id |-> <<"n", HY, "s">>, namespace |-> NS_ns]

\* C9 as stated: in both versions, when the close of the port-forward process
\* is reported the readline interface has already been closed.
C9_InputClosedBeforeCloseReported ==
  pf.state = "closed" => rlAtPfClose = "closed"

\* C9 amended: in 0.0.1, when the close of the port-forward process is
\* reported the readline interface has already been closed.
C9_V1InputClosedBeforeCloseReported ==
  (version = "v1" /\ pf.state = "closed") => rlAtPfClose = "closed"

C9_Witness ==
  /\ version = "v1"
  /\ pf.state = "closed"
  /\ pf.out > 0
  /\ rlAtPfClose = "closed"

\* C10: for every pod row that contributes an entry, the pod identifier
\* rebuilt as <environment>-<namespace>-<service>-<id> equals the NAME column
\* of that row.
C10_RebuiltPodIdentifierIsName ==
  parser.phase = "built" => parser.podId = parser.row.name

====
